---------------------------- MODULE Spec2Model ----------------------------
(***************************************************************************)
(* Model of Humber_flood_embankments_analysis.py.                          *)
(*                                                                         *)
(* The script defines two functions, generate_handles and scale_bar, and   *)
(* has no other module-level statement.  Every statement from line 30 to   *)
(* line 319 is indented under "def scale_bar", so the dataset loads, the   *)
(* metric computations, the map composition, a call of scale_bar(ax)       *)
(* (line 314) and the savefig call (line 319) are all the body of          *)
(* scale_bar.  The model follows the interpreter: the module is executed,  *)
(* a client may then call scale_bar(ax), and the call runs the body one    *)
(* statement group at a time on a stack of frames.                         *)
(*                                                                         *)
(* Numbers: lengths and coordinates are Python floats.  The model uses     *)
(* integers and draws its inputs from values for which the code's float    *)
(* arithmetic is exact (lengths that are multiples of 1000 m, extents that *)
(* are multiples of 100 m), so "/ 1000", "* 0.92" and "* 0.95" are exact   *)
(* integer operations here.  Floating-point rounding is not modelled.      *)
(***************************************************************************)
EXTENDS Integers, Sequences, FiniteSets, TLC

(***************************************************************************)
(* Bounds of the model.                                                    *)
(***************************************************************************)
\* stands for sys.getrecursionlimit() (1000 in CPython): the deepest
\* nesting of scale_bar frames before the interpreter raises RecursionError
RecursionLimit == 2
\* rows in the small basemap tables
MaxAreaRows == 3
\* rows in the embankment and low-section tables
MaxLenRows == 2
\* rows in the steep-slope tables
MaxCatRows == 3
\* rows in the palaeochannel tables
MaxPalaeoRows == 2
\* rows in the geophysical survey tables
MaxSurveyRows == 2
\* how many identifiers beyond the palette length the large basemaps have
MaxExtraAreas == 1

(***************************************************************************)
(* Generic helpers on sequences.                                           *)
(***************************************************************************)
Range(s) == {s[i] : i \in 1..Len(s)}

SeqsUpTo(S, n) == UNION {[1..k -> S] : k \in 0..n}

RECURSIVE SumSeq(_)
SumSeq(s) == IF s = <<>> THEN 0 ELSE s[1] + SumSeq(Tail(s))

\* a missing attribute value (None / NaN in the GeoDataFrame)
NA == "NA"

(***************************************************************************)
(* Table operations of pandas, as the script uses them.                    *)
(***************************************************************************)
\* df[col] as the list of its values, in row order
Column(t, col) == [i \in 1..Len(t) |-> t[i][col]]

\* df[col].sum(); the numeric columns of the model hold no missing value
ColumnSum(t, col) == SumSeq(Column(t, col))

\* df[col].count(): the number of rows whose value in col is not missing
ColumnCount(t, col) == Cardinality({i \in 1..Len(t) : t[i][col] # NA})

\* df[df[col] == v]: the rows whose value in col equals v, in row order;
\* a missing value compares unequal to everything
FilterEq(t, col, v) ==
    SelectSeq(t, LAMBDA r : r[col] # NA /\ r[col] = v)

\* df.count(): the number of non-missing values of every column
FrameCount(t, cols) == [c \in cols |-> ColumnCount(t, c)]

\* Series.unique(): the distinct values in order of first appearance,
\* a missing value included
RECURSIVE UniqueOf(_, _)
UniqueOf(s, seen) ==
    IF s = <<>> THEN <<>>
    ELSE IF s[1] \in seen THEN UniqueOf(Tail(s), seen)
    ELSE <<s[1]>> \o UniqueOf(Tail(s), seen \cup {s[1]})

Unique(t, col) == UniqueOf(Column(t, col), {})

\* df.groupby([key])[val].sum(): one entry per non-missing key value
\* (groupby drops the rows whose key is missing), each the sum of val over
\* the rows of that key
GroupSum(t, key, val) ==
    [g \in {t[i][key] : i \in 1..Len(t)} \ {NA} |->
        ColumnSum(FilterEq(t, key, g), val)]

\* x / 1000 (metres to kilometres); exact for the lengths the model draws
Km(x) == x \div 1000

\* a / b * 100 on numpy float64: division by zero raises nothing, it gives
\* inf for a positive numerator and nan for 0 / 0, and inf * 100 = inf,
\* nan * 100 = nan.  A finite result is kept as the exact fraction num/den.
Ratio(a, b) ==
    IF b # 0 THEN [kind |-> "finite", num |-> a * 100, den |-> b]
    ELSE IF a # 0 THEN [kind |-> "inf", num |-> 0, den |-> 0]
    ELSE [kind |-> "nan", num |-> 0, den |-> 0]

\* list.sort(): insertion sort, ascending
RECURSIVE InsertSorted(_, _)
InsertSorted(x, s) ==
    IF s = <<>> THEN <<x>>
    ELSE IF x <= s[1] THEN <<x>> \o s
    ELSE <<s[1]>> \o InsertSorted(x, Tail(s))

\* the list left in the order of first appearance (the sort call omitted)
SortList_Omitted(s) == s

RECURSIVE SortList(_)
SortList(s) ==
    IF s = <<>> THEN <<>> ELSE InsertSorted(s[1], SortList(Tail(s)))

(***************************************************************************)
(* Program constants.                                                      *)
(***************************************************************************)
\* the colour list of lines 214-219
areas_colors ==
    << "sandybrown", "bisque", "tan", "moccasin", "floralwhite", "gold",
       "darkkhaki", "lightgoldenrodyellow", "olivedrab", "chartreuse",
       "palegreen", "mediumspringgreen", "lightseagreen", "paleturquoise",
       "darkturquoise", "deepskyblue", "mediumpurple", "darkorchid",
       "plum", "m", "palevioletred", "lightgray", "lightcoral",
       "mistyrose", "peachpuff", "navajowhite", "orange", "lemonchiffon",
       "yellowgreen", "c", "skyblue", "violet", "fuchsia", "indianred",
       "salmon", "y" >>

\* the six datasets in the order of their read_file calls
Datasets ==
    << "areas", "defences", "Low_sections", "Steep_slopes",
       "Palaeochannels", "Geophysical_survey_bank_materials" >>

\* the five overlay layers in the order lines 239-281 add them, each with
\* the variable it reads and the colour it is drawn in
Overlays ==
    << [name |-> "defences", color |-> "b"],
       [name |-> "Geophysical_survey_bank_materials", color |-> "lime"],
       [name |-> "Low_sections", color |-> "darkorange"],
       [name |-> "Steep_slopes", color |-> "k"],
       [name |-> "Palaeochannels", color |-> "0.7"] >>

\* location=(0.92, 0.95), in percent
LocationX == 92
LocationY == 95
\* the buffer of set_extent, line 205
ExtentBuffer == 10000

\* generate_handles(labels, colors, edge, alpha): one Rectangle per label,
\* its face colour colors[i % lc] (0-based i)
generate_handles(labels, colors, edge, alpha) ==
    [i \in 1..Len(labels) |->
        [facecolor |-> colors[((i - 1) % Len(colors)) + 1],
         edgecolor |-> edge, alpha |-> alpha]]

\* the bar with its second segment and its labels placed from a bar end
\* 25000 units away instead of 20000
ScaleBarArtists_LongBar(ext) ==
    LET x0 == ext[1]  x1 == ext[2]  y0 == ext[3]  y1 == ext[4]
        sbx == x0 + ((x1 - x0) * LocationX) \div 100
        sby == y0 + ((y1 - y0) * LocationY) \div 100
    IN [sbx |-> sbx, sby |-> sby,
        lines |->
          << [xa |-> sbx, xb |-> sbx - 25000, y |-> sby,
              color |-> "k", linewidth |-> 9],
             [xa |-> sbx, xb |-> sbx - 10000, y |-> sby,
              color |-> "k", linewidth |-> 6],
             [xa |-> sbx - 10000, xb |-> sbx - 25000, y |-> sby,
              color |-> "w", linewidth |-> 6] >>,
        texts |->
          << [x |-> sbx, y |-> sby - 4500, s |-> "20 km"],
             [x |-> sbx - 12500, y |-> sby - 4500, s |-> "10 km"],
             [x |-> sbx - 29500, y |-> sby - 4500, s |-> "0 km"] >>]

\* the artists lines 30-40 add to an axes of extent <<x0, x1, y0, y1>>:
\* three plotted lines (from x, to x, at y) and three texts (at x, y)
ScaleBarArtists(ext) ==
    LET x0 == ext[1]  x1 == ext[2]  y0 == ext[3]  y1 == ext[4]
        sbx == x0 + ((x1 - x0) * LocationX) \div 100
        sby == y0 + ((y1 - y0) * LocationY) \div 100
    IN [sbx |-> sbx, sby |-> sby,
        lines |->
          << [xa |-> sbx, xb |-> sbx - 20000, y |-> sby,
              color |-> "k", linewidth |-> 9],
             [xa |-> sbx, xb |-> sbx - 10000, y |-> sby,
              color |-> "k", linewidth |-> 6],
             [xa |-> sbx - 10000, xb |-> sbx - 20000, y |-> sby,
              color |-> "w", linewidth |-> 6] >>,
        texts |->
          << [x |-> sbx, y |-> sby - 4500, s |-> "20 km"],
             [x |-> sbx - 12500, y |-> sby - 4500, s |-> "10 km"],
             [x |-> sbx - 24500, y |-> sby - 4500, s |-> "0 km"] >>]

(***************************************************************************)
(* Inputs: the contents of the six shapefiles, which file (if any) cannot  *)
(* be read, and the extent of the axes the client passes to scale_bar.     *)
(***************************************************************************)
AreaRow(id) ==
    [FloodArea_ |-> id, UNIT |-> IF id % 2 = 0 THEN "HU2" ELSE "HU1"]

\* small basemaps: every row order and duplication over three identifiers
SmallAreas ==
    {[i \in 1..Len(s) |-> AreaRow(s[i])] : s \in SeqsUpTo(1..3, MaxAreaRows)}

\* large basemaps: one row per identifier 1..n, ascending or descending,
\* for n from one below the palette length to MaxExtraAreas above it
LargeAreas ==
    UNION {{[i \in 1..n |-> AreaRow(i)], [i \in 1..n |-> AreaRow(n + 1 - i)]} :
           n \in (Len(areas_colors) - 1)..(Len(areas_colors) + MaxExtraAreas)}

LengthTables ==
    {[i \in 1..Len(s) |-> [Shape_Leng |-> s[i]]] :
        s \in SeqsUpTo({0, 1000}, MaxLenRows)}

SteepTables ==
    {[i \in 1..Len(s) |-> [Face |-> s[i]]] :
        s \in SeqsUpTo({"Front", "Rear", NA}, MaxCatRows)}

PalaeoRows ==
    [Class : {"Palaeochannel", NA}, channel : {"Depression", "Extrusion", NA}]

PalaeoTables == SeqsUpTo(PalaeoRows, MaxPalaeoRows)

SurveyRows ==
    [Material : {"CLAY", NA}, Saturation : {"Normal", "High"},
     HS_Hyd_Uni : {"HU1"}, Tot_dist_m : {1000, 2000}]

SurveyTables == SeqsUpTo(SurveyRows, MaxSurveyRows)

\* axes extents <<x0, x1, y0, y1>> in metres
Extents ==
    {<<x0, x0 + w, 390000, 390000 + h>> :
        x0 \in {0, 470000}, w \in {50000, 90000}, h \in {20000, 60000}}

DefaultInput ==
    [areas |-> <<AreaRow(2), AreaRow(1)>>,
     total_bounds |-> <<480000, 400000, 540000, 440000>>,
     defences |-> <<[Shape_Leng |-> 2000]>>,
     Low_sections |-> <<[Shape_Leng |-> 1000]>>,
     Steep_slopes |-> <<[Face |-> "Front"], [Face |-> "Rear"]>>,
     Palaeochannels |-> <<[Class |-> "Palaeochannel", channel |-> "Depression"]>>,
     Geophysical_survey_bank_materials |->
        <<[Material |-> "CLAY", Saturation |-> "Normal",
           HS_Hyd_Uni |-> "HU1", Tot_dist_m |-> 1000]>>,
     broken |-> "none",
     extent |-> <<470000, 560000, 390000, 450000>>]

\* the inputs of the model: the default input changed in one dataset (the
\* two length tables together, since the ratio reads both)
Inputs ==
    {[DefaultInput EXCEPT !.areas = t] : t \in SmallAreas \cup LargeAreas}
    \cup {[DefaultInput EXCEPT !.defences = d, !.Low_sections = l] :
            d \in LengthTables, l \in LengthTables}
    \cup {[DefaultInput EXCEPT !.Steep_slopes = t] : t \in SteepTables}
    \cup {[DefaultInput EXCEPT !.Palaeochannels = t] : t \in PalaeoTables}
    \cup {[DefaultInput EXCEPT !.Geophysical_survey_bank_materials = t] :
            t \in SurveyTables}
    \cup {[DefaultInput EXCEPT !.broken = b] : b \in Range(Datasets)}
    \cup {[DefaultInput EXCEPT !.extent = e] : e \in Extents}

(***************************************************************************)
(* State.                                                                  *)
(***************************************************************************)
VARIABLES
    files,    \* the input: tables of the six shapefiles, broken file
    mpc,      \* position of the module-level code: "start" or "defined"
    status,   \* the client's call of scale_bar: "idle", "running",
              \* "returned" or "raised"
    error,    \* the exception that ended the call, "none" if none
    stack,    \* the frames of scale_bar, the innermost last
    axes,     \* the axes objects: axes[1] is the client's
    loads,    \* how many times each dataset has been read
    saved,    \* the image files written, in order
    script,   \* which of the two scripts this run executes
    web       \* the run of the interactive script: its position, how
              \* it ended, the reads done, the map layers, the files saved

vars == <<files, mpc, status, error, stack, axes, loads, saved, script, web>>

LocalNames == Range(Datasets) \cup {"Palaeochannels_handle"}

\* an axes object: its extent and what has been drawn on it
NewAxes(ext) ==
    [extent |-> ext, features |-> <<>>, legend |-> <<>>, scalebars |-> <<>>]

\* a fresh frame of scale_bar(ax): nothing bound, at its first statement
NewFrame(ax) ==
    [ax |-> ax, pc |-> "bar", k |-> 0,
     bind |-> [v \in LocalNames |-> "unbound"],
     m |-> <<>>, myax |-> 0, area_numbers |-> <<>>, ii |-> 0, lk |-> 0]

Top == stack[Len(stack)]

\* replace the innermost frame
SetTop(f) == [stack EXCEPT ![Len(stack)] = f]

\* an uncaught exception: the script has no try statement, so every frame
\* is unwound and the client's call ends with the exception
Raise(e) ==
    /\ stack' = <<>>
    /\ status' = "raised"
    /\ error' = e

Init ==
    /\ files \in Inputs
    /\ mpc = "start"
    /\ status = "idle"
    /\ error = "none"
    /\ stack = <<>>
    /\ axes = <<NewAxes(files.extent)>>
    /\ loads = [d \in Range(Datasets) |-> 0]
    /\ saved = <<>>
    /\ script \in {"static", "interactive"}
    /\ web = [pc |-> 0, status |-> "idle", error |-> "none",
              loads |-> [d \in Range(Datasets) |-> 0],
              layers |-> <<>>, saved |-> <<>>]

(***************************************************************************)
(* Module level.                                                           *)
(***************************************************************************)
\* lines 8-29: the imports and the two def statements; the module has no
\* further statement, so running the script ends here
RunScript ==
    /\ script = "static"
    /\ mpc = "start"
    /\ mpc' = "defined"
    /\ UNCHANGED <<script, web, files, status, error, stack, axes, loads, saved>>

\* a client (an importing module or an interactive session) calls
\* scale_bar(ax) with its own axes
CallScaleBar ==
    /\ mpc = "defined"
    /\ status = "idle"
    /\ status' = "running"
    /\ stack' = <<NewFrame(1)>>
    /\ UNCHANGED <<script, web, files, mpc, error, axes, loads, saved>>

(***************************************************************************)
(* The body of scale_bar.                                                  *)
(***************************************************************************)
\* lines 30-40: draw the bar and its labels on the axes passed in
DrawScaleBar ==
    /\ stack # <<>> /\ Top.pc = "bar"
    /\ axes' = [axes EXCEPT ![Top.ax].scalebars =
                   Append(@, ScaleBarArtists(axes[Top.ax].extent))]
    /\ stack' = SetTop([Top EXCEPT !.pc = "load"])
    /\ UNCHANGED <<script, web, files, mpc, status, error, loads, saved>>

\* lines 45-69: the next gpd.read_file call succeeds and binds its variable
LoadDataset ==
    /\ stack # <<>> /\ Top.pc = "load"
    /\ LET d == Datasets[Top.k + 1] IN
        /\ files.broken # d
        /\ loads' = [loads EXCEPT ![d] = @ + 1]
        /\ stack' = SetTop([Top EXCEPT
                        !.k = @ + 1,
                        !.bind[d] = "table",
                        !.pc = IF Top.k + 1 = Len(Datasets)
                               THEN "lengths" ELSE "load"])
    /\ UNCHANGED <<script, web, files, mpc, status, error, axes, saved>>

\* the failed read skipped and the run continued with the next statement,
\* as if the exception were caught and ignored
LoadFails_Swallowed ==
    /\ stack # <<>> /\ Top.pc = "load"
    /\ files.broken = Datasets[Top.k + 1]
    /\ stack' = SetTop([Top EXCEPT
           !.k = @ + 1,
           !.pc = IF Top.k + 1 = Len(Datasets) THEN "lengths" ELSE "load"])
    /\ UNCHANGED <<script, web, files, mpc, status, error, axes, loads, saved>>

\* lines 45-69: the next gpd.read_file call fails (file missing or not
\* parsable) and raises
LoadFails ==
    /\ stack # <<>> /\ Top.pc = "load"
    /\ files.broken = Datasets[Top.k + 1]
    /\ Raise("DatasetError")
    /\ UNCHANGED <<script, web, files, mpc, axes, loads, saved>>

\* the table a dataset variable is bound to after its load
Table(d) == files[d]

\* lines 73-87: total lengths in km and the low-section percentage
ComputeLengths ==
    /\ stack # <<>> /\ Top.pc = "lengths"
    /\ LET def == ColumnSum(Table("defences"), "Shape_Leng")
           low == ColumnSum(Table("Low_sections"), "Shape_Leng")
       IN stack' = SetTop([Top EXCEPT
              !.pc = "steep",
              !.m = [defences_km |-> Km(def),
                     low_km |-> Km(low),
                     low_pct |-> Ratio(low, def)]])
    /\ UNCHANGED <<script, web, files, mpc, status, error, axes, loads, saved>>

\* lines 91-110: steep-slope counts
ComputeSteepSlopes ==
    /\ stack # <<>> /\ Top.pc = "steep"
    /\ LET t == Table("Steep_slopes")
       IN stack' = SetTop([Top EXCEPT
              !.pc = "palaeo",
              !.m = [steep_count |-> ColumnCount(t, "Face"),
                     type_Steep_slopes |-> Unique(t, "Face"),
                     steep_front |->
                        FrameCount(FilterEq(t, "Face", "Front"), {"Face"}),
                     steep_rear |->
                        FrameCount(FilterEq(t, "Face", "Rear"), {"Face"})]])
    /\ UNCHANGED <<script, web, files, mpc, status, error, axes, loads, saved>>

\* lines 113-132: palaeochannel counts
ComputePalaeochannels ==
    /\ stack # <<>> /\ Top.pc = "palaeo"
    /\ LET t == Table("Palaeochannels")
       IN stack' = SetTop([Top EXCEPT
              !.pc = "survey",
              !.m = [palaeo_count |-> ColumnCount(t, "Class"),
                     num_Palaeochannels |-> Len(Unique(t, "channel")),
                     type_Palaeochannels |-> Unique(t, "channel"),
                     palaeo_depression |->
                        FrameCount(FilterEq(t, "channel", "Depression"),
                                   {"Class", "channel"})]])
    /\ UNCHANGED <<script, web, files, mpc, status, error, axes, loads, saved>>

\* groupby([key])['Tot_dist_m'].sum() / 1000
GroupKm(t, key) ==
    LET g == GroupSum(t, key, "Tot_dist_m")
    IN [c \in DOMAIN g |-> Km(g[c])]

\* lines 135-178: survey length, surveyed percentage, grouped lengths
ComputeSurvey ==
    /\ stack # <<>> /\ Top.pc = "survey"
    /\ LET t == Table("Geophysical_survey_bank_materials")
           tot == ColumnSum(t, "Tot_dist_m")
           def == ColumnSum(Table("defences"), "Shape_Leng")
       IN stack' = SetTop([Top EXCEPT
              !.pc = "units",
              !.m = [rows |-> Len(t),
                     survey_km |-> Km(tot),
                     survey_pct |-> Ratio(tot, def),
                     type_materials |-> Unique(t, "Material"),
                     by_Material |-> GroupKm(t, "Material"),
                     by_Saturation |-> GroupKm(t, "Saturation"),
                     by_HS_Hyd_Uni |-> GroupKm(t, "HS_Hyd_Uni"),
                     num_Units_surveyed |-> Len(Unique(t, "HS_Hyd_Uni"))]])
    /\ UNCHANGED <<script, web, files, mpc, status, error, axes, loads, saved>>

\* lines 181-187: the hydraulic units of the basemap
ComputeUnits ==
    /\ stack # <<>> /\ Top.pc = "units"
    /\ LET u == Unique(Table("areas"), "UNIT")
       IN stack' = SetTop([Top EXCEPT
              !.pc = "figure",
              !.m = [full_list_Units |-> u, num_Units |-> Len(u)]])
    /\ UNCHANGED <<script, web, files, mpc, status, error, axes, loads, saved>>

\* something drawn on an axes: the dataset it shows, the area identifier
\* (0 when it is not one basemap area), its line or marker colour and its
\* fill colour ("none" when the call sets none)
Feature(layer, id, color, facecolor) ==
    [layer |-> layer, id |-> id, color |-> color, facecolor |-> facecolor]

\* lines 191-207: a new figure and axes, the white basemap, the extent set
\* to the basemap bounds with a 10 km buffer
CreateFigure ==
    /\ stack # <<>> /\ Top.pc = "figure"
    /\ LET b == files.total_bounds
           ext == << b[1] - ExtentBuffer, b[3] + ExtentBuffer,
                     b[2] - ExtentBuffer, b[4] + ExtentBuffer >>
       IN axes' = Append(axes,
              [NewAxes(ext) EXCEPT !.features =
                  <<Feature("areas", 0, "lightgray", "w")>>])
    /\ stack' = SetTop([Top EXCEPT !.pc = "colours", !.myax = Len(axes) + 1])
    /\ UNCHANGED <<script, web, files, mpc, status, error, loads, saved>>

\* lines 210-223: the sorted list of distinct area identifiers
PrepareColours ==
    /\ stack # <<>> /\ Top.pc = "colours"
    /\ stack' = SetTop([Top EXCEPT
           !.pc = "colour_loop",
           !.area_numbers = SortList(Unique(Table("areas"), "FloodArea_")),
           !.ii = 0])
    /\ UNCHANGED <<script, web, files, mpc, status, error, axes, loads, saved>>

\* lines 227-234: one iteration of the colouring loop: the areas of
\* identifier area_numbers[ii] are filled with areas_colors[ii]
ColourArea ==
    /\ stack # <<>> /\ Top.pc = "colour_loop"
    /\ Top.ii < Len(Top.area_numbers)
    /\ Top.ii < Len(areas_colors)
    /\ axes' = [axes EXCEPT ![Top.myax].features =
           Append(@, Feature("areas", Top.area_numbers[Top.ii + 1], "w",
                             areas_colors[Top.ii + 1]))]
    /\ stack' = SetTop([Top EXCEPT !.ii = @ + 1])
    /\ UNCHANGED <<script, web, files, mpc, status, error, loads, saved>>

\* line 231: areas_colors[ii] with ii past the end of the list
ColourIndexError ==
    /\ stack # <<>> /\ Top.pc = "colour_loop"
    /\ Top.ii < Len(Top.area_numbers)
    /\ Top.ii >= Len(areas_colors)
    /\ Raise("IndexError")
    /\ UNCHANGED <<script, web, files, mpc, axes, loads, saved>>

\* the palaeochannel artists assigned to Palaeochannels itself, as the
\* other four overlays are assigned to their dataset variable
AddOverlay_RebindsAll ==
    /\ stack # <<>>
    /\ \/ Top.pc = "colour_loop" /\ Top.ii = Len(Top.area_numbers)
       \/ Top.pc = "layers"
    /\ LET o == Overlays[Top.lk + 1]
           var == o.name
           kind == IF o.name = "Palaeochannels" THEN "artists" ELSE "feature"
           face == IF o.name = "Steep_slopes" THEN "k" ELSE "none"
       IN /\ axes' = [axes EXCEPT ![Top.myax].features =
                 Append(@, Feature(o.name, 0, o.color, face))]
          /\ stack' = SetTop([Top EXCEPT
                 !.lk = @ + 1,
                 !.bind[var] = kind,
                 !.pc = IF Top.lk + 1 = Len(Overlays)
                        THEN "legend" ELSE "layers"])
    /\ UNCHANGED <<script, web, files, mpc, status, error, loads, saved>>

\* lines 239-281: the next overlay is drawn; the four ShapelyFeature
\* overlays are assigned to the variable that held the dataset, the
\* palaeochannel points are plotted and the artists kept in
\* Palaeochannels_handle
AddOverlay ==
    /\ stack # <<>>
    /\ \/ Top.pc = "colour_loop" /\ Top.ii = Len(Top.area_numbers)
       \/ Top.pc = "layers"
    /\ LET o == Overlays[Top.lk + 1]
           var == IF o.name = "Palaeochannels"
                  THEN "Palaeochannels_handle" ELSE o.name
           kind == IF o.name = "Palaeochannels" THEN "artists" ELSE "feature"
           face == IF o.name = "Steep_slopes" THEN "k" ELSE "none"
       IN /\ axes' = [axes EXCEPT ![Top.myax].features =
                 Append(@, Feature(o.name, 0, o.color, face))]
          /\ stack' = SetTop([Top EXCEPT
                 !.lk = @ + 1,
                 !.bind[var] = kind,
                 !.pc = IF Top.lk + 1 = Len(Overlays)
                        THEN "legend" ELSE "layers"])
    /\ UNCHANGED <<script, web, files, mpc, status, error, loads, saved>>

\* lines 291-306: the generate_handles calls in the order line 304
\* concatenates them (dataset: the X of the variable X_handle), and the
\* labels list
LegendHandles ==
    generate_handles(<<"Flood embankments">>, <<"b">>, "k", 25)
    \o generate_handles(<<"Low sections of embankments">>, <<"darkorange">>, "k", 100)
    \o generate_handles(<<"Steep embankment slopes">>, <<"k">>, "k", 100)
    \o generate_handles(<<"Palaeochannel intersections">>, <<"chocolate">>, "k", 100)
    \o generate_handles(<<"Geophysical survey extents">>, <<"lime">>, "k", 100)

LegendDatasets ==
    << "defences", "Low_sections", "Steep_slopes", "Palaeochannels",
       "Geophysical_survey_bank_materials" >>

LegendLabels ==
    << "Flood embankments", "Low sections of embankments",
       "Steep embankment slopes", "Palaeochannel intersections",
       "Geophysical survey extents" >>

\* lines 291-309: the legend: handle i is shown with label i
BuildLegend ==
    /\ stack # <<>> /\ Top.pc = "legend"
    /\ axes' = [axes EXCEPT ![Top.myax].legend =
           [i \in 1..Len(LegendLabels) |->
               [dataset |-> LegendDatasets[i], label |-> LegendLabels[i],
                handle |-> LegendHandles[i]]]]
    /\ stack' = SetTop([Top EXCEPT
           !.pc = "call", !.bind["Palaeochannels_handle"] = "handles"])
    /\ UNCHANGED <<script, web, files, mpc, status, error, loads, saved>>

\* line 314: scale_bar(ax) is called from inside scale_bar with the axes
\* just composed; the caller resumes at line 316 when the call returns
RecursiveCall ==
    /\ stack # <<>> /\ Top.pc = "call"
    /\ Len(stack) < RecursionLimit
    /\ stack' = Append(SetTop([Top EXCEPT !.pc = "save"]), NewFrame(Top.myax))
    /\ UNCHANGED <<script, web, files, mpc, status, error, axes, loads, saved>>

\* line 314 at the interpreter's recursion limit
RecursionError ==
    /\ stack # <<>> /\ Top.pc = "call"
    /\ Len(stack) >= RecursionLimit
    /\ Raise("RecursionError")
    /\ UNCHANGED <<script, web, files, mpc, axes, loads, saved>>

\* lines 316-319: the figure is written to the image file
SaveFig ==
    /\ stack # <<>> /\ Top.pc = "save"
    /\ saved' = Append(saved, [path |-> "Humber_flood_embankment_data.png",
                               ax |-> Top.myax])
    /\ stack' = SetTop([Top EXCEPT !.pc = "end"])
    /\ UNCHANGED <<script, web, files, mpc, status, error, axes, loads>>

\* the end of the body: the frame returns None to its caller
Return ==
    /\ stack # <<>> /\ Top.pc = "end"
    /\ stack' = SubSeq(stack, 1, Len(stack) - 1)
    /\ status' = IF Len(stack) = 1 THEN "returned" ELSE status
    /\ UNCHANGED <<script, web, files, mpc, error, axes, loads, saved>>

(***************************************************************************)
(* Interactive_Humber_flood_embankment_data.py: module-level statements    *)
(* only, executed top to bottom, with no try statement.                    *)
(***************************************************************************)
\* the statements of the script that act: six read_file calls, each
\* followed by the explore call that adds its layer to the map m (the
\* first explore creates m), and the final m.save
WebScript ==
    << [op |-> "load", dataset |-> "areas", column |-> "", cmap |-> ""],
       [op |-> "explore", dataset |-> "areas", column |-> "UNIT",
        cmap |-> "Accent"],
       [op |-> "load", dataset |-> "defences", column |-> "", cmap |-> ""],
       [op |-> "explore", dataset |-> "defences", column |-> "Type",
        cmap |-> "Dark2"],
       [op |-> "load", dataset |-> "Low_sections", column |-> "", cmap |-> ""],
       [op |-> "explore", dataset |-> "Low_sections", column |-> "Type",
        cmap |-> "Set1"],
       [op |-> "load", dataset |-> "Steep_slopes", column |-> "", cmap |-> ""],
       [op |-> "explore", dataset |-> "Steep_slopes", column |-> "Face",
        cmap |-> "tab20b"],
       [op |-> "load", dataset |-> "Palaeochannels", column |-> "",
        cmap |-> ""],
       [op |-> "explore", dataset |-> "Palaeochannels", column |-> "channel",
        cmap |-> "tab10"],
       [op |-> "load", dataset |-> "Geophysical_survey_bank_materials",
        column |-> "", cmap |-> ""],
       [op |-> "explore", dataset |-> "Geophysical_survey_bank_materials",
        column |-> "Material", cmap |-> "Dark2"],
       [op |-> "save", dataset |-> "", column |-> "", cmap |-> ""] >>

\* the interactive script is at a statement of the given kind
WebAt(op) ==
    /\ script = "interactive"
    /\ web.status \in {"idle", "running"}
    /\ web.pc < Len(WebScript)
    /\ WebScript[web.pc + 1].op = op

\* lines 11, 24, 42, 59, 76, 91: the next gpd.read_file call succeeds
WebLoad ==
    /\ WebAt("load")
    /\ files.broken # WebScript[web.pc + 1].dataset
    /\ web' = [web EXCEPT !.pc = @ + 1, !.status = "running",
                  !.loads[WebScript[web.pc + 1].dataset] = @ + 1]
    /\ UNCHANGED <<script, files, mpc, status, error, stack, axes, loads, saved>>

\* lines 11, 24, 42, 59, 76, 91: the next gpd.read_file call raises; the
\* exception is not caught and ends the script
WebLoadFails ==
    /\ WebAt("load")
    /\ files.broken = WebScript[web.pc + 1].dataset
    /\ web' = [web EXCEPT !.status = "raised", !.error = "DatasetError"]
    /\ UNCHANGED <<script, files, mpc, status, error, stack, axes, loads, saved>>

\* lines 21, 30-37, 48-55, 65-72, 81-87, 97-104: explore adds the layer of
\* the dataset just read to the map
WebExplore ==
    /\ WebAt("explore")
    /\ LET st == WebScript[web.pc + 1] IN
       web' = [web EXCEPT !.pc = @ + 1,
                  !.layers = Append(@, [dataset |-> st.dataset,
                                        column |-> st.column,
                                        cmap |-> st.cmap])]
    /\ UNCHANGED <<script, files, mpc, status, error, stack, axes, loads, saved>>

\* line 108: the map is written to the HTML document; the script ends
WebSave ==
    /\ WebAt("save")
    /\ web' = [web EXCEPT !.pc = @ + 1, !.status = "done",
                  !.saved = Append(@, "Interactive_Humber_flood_embankment_data.html")]
    /\ UNCHANGED <<script, files, mpc, status, error, stack, axes, loads, saved>>

Next ==
    \/ RunScript
    \/ CallScaleBar
    \/ DrawScaleBar
    \/ LoadDataset
    \/ LoadFails
    \/ ComputeLengths
    \/ ComputeSteepSlopes
    \/ ComputePalaeochannels
    \/ ComputeSurvey
    \/ ComputeUnits
    \/ CreateFigure
    \/ PrepareColours
    \/ ColourArea
    \/ ColourIndexError
    \/ AddOverlay
    \/ BuildLegend
    \/ RecursiveCall
    \/ RecursionError
    \/ WebLoad
    \/ WebLoadFails
    \/ WebExplore
    \/ WebSave

\* SaveFig and Return are no disjuncts of Next: a frame reaches line 316
\* only when the call of line 314 returns, and a frame returns only from
\* line 319.  LinesAfterCallUnreachable, an invariant of Spec, states that
\* neither action is enabled in any reachable state, so the reachable
\* states are the same with or without them.
Spec == Init /\ [][Next]_vars

LinesAfterCallUnreachable == ~ENABLED SaveFig /\ ~ENABLED Return

(***************************************************************************)
(* Derived quantities used by the properties.                              *)
(***************************************************************************)
AxesIds == 1..Len(axes)

RECURSIVE BarsOn(_)
BarsOn(n) == IF n = 0 THEN 0 ELSE Len(axes[n].scalebars) + BarsOn(n - 1)

\* the number of scale bars drawn so far, on any axes
BarsDrawn == BarsOn(Len(axes))

\* the call of scale_bar made by the client is over
CallOver == status \in {"returned", "raised"}

AllLoaded == \A d \in Range(Datasets) : loads[d] >= 1

\* the coloured basemap areas drawn on axes a
AreaFeatures(a) ==
    {axes[a].features[i] : i \in {j \in 1..Len(axes[a].features) :
        axes[a].features[j].layer = "areas" /\ axes[a].features[j].id # 0}}

\* the overlay features drawn on axes a for dataset d
OverlayFeatures(a, d) ==
    {axes[a].features[i] : i \in {j \in 1..Len(axes[a].features) :
        axes[a].features[j].layer = d}}

\* an axes carries everything the composer adds before the export
Composed(a) ==
    /\ a \in AxesIds
    /\ \E i \in 1..Len(axes[a].features) : axes[a].features[i].layer = "areas"
    /\ \A i \in 1..Len(Overlays) : OverlayFeatures(a, Overlays[i].name) # {}
    /\ axes[a].legend # <<>>
    /\ axes[a].scalebars # <<>>

(***************************************************************************)
(* C1.  A run in which all six datasets load writes the image file         *)
(* Humber_flood_embankment_data.png exactly once, after the basemap, the   *)
(* overlays, the legend and the scale bar have been added: when the call   *)
(* is over and the datasets were loaded, exactly one file has been         *)
(* written, under that name, from a fully composed axes.                   *)
(***************************************************************************)
C1_ImageWrittenOnce ==
    (CallOver /\ AllLoaded) =>
        /\ Len(saved) = 1
        /\ saved[1].path = "Humber_flood_embankment_data.png"
        /\ Composed(saved[1].ax)

(***************************************************************************)
(* C2.  The pipeline is single-pass: a call of scale_bar returns to its    *)
(* caller, each dataset is loaded at most once in a run, the scale bar is  *)
(* drawn at most once and no stage is re-entered (scale_bar is never       *)
(* active twice, and never ends in a RecursionError).                      *)
(***************************************************************************)
C2_SinglePass ==
    /\ \A d \in Range(Datasets) : loads[d] <= 1
    /\ BarsDrawn <= 1
    /\ Len(stack) <= 1
    /\ error # "RecursionError"

(***************************************************************************)
(* C3.  The two ratio computations end in an EmptyDenominator error when   *)
(* the embankment total is 0 and never yield inf or nan; otherwise they    *)
(* yield total(A) / total(B) * 100.                                        *)
(***************************************************************************)
C3_RatioOrEmptyDenominator ==
    LET def == ColumnSum(files.defences, "Shape_Leng")
        low == ColumnSum(files.Low_sections, "Shape_Leng")
        tot == ColumnSum(files.Geophysical_survey_bank_materials, "Tot_dist_m")
        Good(r, a) == /\ def # 0
                      /\ r = [kind |-> "finite", num |-> a * 100, den |-> def]
    IN /\ \A i \in 1..Len(stack) :
            /\ "low_pct" \in DOMAIN stack[i].m => Good(stack[i].m.low_pct, low)
            /\ "survey_pct" \in DOMAIN stack[i].m
                  => Good(stack[i].m.survey_pct, tot)
       /\ (CallOver /\ AllLoaded /\ def = 0) => error = "EmptyDenominator"

(***************************************************************************)
(* The colouring of lines 222-234 as a function of the basemap table: the  *)
(* colour of every identifier that gets one before the loop ends or fails. *)
(***************************************************************************)
IdSet(t) == {t[i].FloodArea_ : i \in 1..Len(t)}

AssignColours(t) ==
    LET nums == SortList(Unique(t, "FloodArea_"))
        n == IF Len(nums) < Len(areas_colors)
             THEN Len(nums) ELSE Len(areas_colors)
    IN [id \in {nums[i] : i \in 1..n} |->
           areas_colors[CHOOSE i \in 1..n : nums[i] = id]]

\* the frames that have left the colouring loop normally
PastColourLoop(f) ==
    \/ f.pc \in {"layers", "legend", "call", "save", "end"}
    \/ f.pc = "colour_loop" /\ f.ii = Len(f.area_numbers)

\* the 0-based position of an identifier in the sorted identifier list
SortedPosition(id) == Cardinality({x \in IdSet(files.areas) : x < id})

(***************************************************************************)
(* C4.  The identifier at 0-based position i of the sorted identifier list *)
(* is filled with palette colour i mod L; with more identifiers than       *)
(* palette colours the loop still completes without error, every           *)
(* identifier being coloured.                                              *)
(***************************************************************************)
C4_CyclicPalette ==
    /\ error # "IndexError"
    /\ \A a \in AxesIds : \A f \in AreaFeatures(a) :
          f.facecolor =
             areas_colors[(SortedPosition(f.id) % Len(areas_colors)) + 1]
    /\ \A i \in 1..Len(stack) :
          PastColourLoop(stack[i]) =>
             {f.id : f \in AreaFeatures(stack[i].myax)} = IdSet(files.areas)

(***************************************************************************)
(* C5.  The identifier-to-colour mapping depends only on the set of        *)
(* distinct identifiers: the colours drawn in this run are the colours     *)
(* that the colouring assigns for every other basemap table with the same  *)
(* identifiers, whatever its row order and duplication.                    *)
(***************************************************************************)
C5_ColoursDependOnIdSet ==
    (\E a \in AxesIds : AreaFeatures(a) # {}) =>
    \A t2 \in SmallAreas \cup LargeAreas :
        IdSet(t2) = IdSet(files.areas) =>
            LET colours == AssignColours(t2) IN
            /\ \A a \in AxesIds : \A f \in AreaFeatures(a) :
                  /\ f.id \in DOMAIN colours
                  /\ colours[f.id] = f.facecolor
            /\ \A i \in 1..Len(stack) :
                  PastColourLoop(stack[i]) =>
                     {f.id : f \in AreaFeatures(stack[i].myax)}
                        = DOMAIN colours

\* a basemap with a repeated identifier and rows out of order has been
\* coloured to the end
C5_Witness ==
    /\ Len(files.areas) = 3
    /\ Cardinality(IdSet(files.areas)) = 2
    /\ files.areas[1].FloodArea_ > files.areas[2].FloodArea_
    /\ \E i \in 1..Len(stack) :
          /\ PastColourLoop(stack[i])
          /\ Cardinality(AreaFeatures(stack[i].myax)) = 2

(***************************************************************************)
(* C6.  The palette has exactly 35 colours, pairwise distinct, and with at *)
(* most 35 distinct identifiers the mapping is one-to-one: every           *)
(* identifier has one colour and no two identifiers share one.             *)
(***************************************************************************)
C6_Palette35OneToOne ==
    \A i \in 1..Len(stack) :
        stack[i].pc \in {"colour_loop", "layers", "legend", "call"} =>
            /\ Len(areas_colors) = 35
            /\ \A x, y \in 1..Len(areas_colors) :
                  x # y => areas_colors[x] # areas_colors[y]
            /\ Cardinality(IdSet(files.areas)) <= 35 =>
                  \A f, g \in AreaFeatures(stack[i].myax) :
                     /\ f.id = g.id => f = g
                     /\ f.id # g.id => f.facecolor # g.facecolor

(***************************************************************************)
(* C7.  The legend has exactly one entry for each of the five overlay      *)
(* datasets and none for the basemap, and the swatch colour of each entry  *)
(* is the colour its dataset is drawn in on the same axes.                 *)
(***************************************************************************)
C7_LegendMatchesLayers ==
    \A a \in AxesIds :
        axes[a].legend # <<>> =>
            LET leg == axes[a].legend IN
            /\ Len(leg) = 5
            /\ {leg[i].dataset : i \in 1..Len(leg)}
                  = {Overlays[i].name : i \in 1..Len(Overlays)}
            /\ \A i \in 1..Len(leg) :
                  /\ leg[i].dataset # "areas"
                  /\ \A f \in OverlayFeatures(a, leg[i].dataset) :
                        leg[i].handle.facecolor = f.color

(***************************************************************************)
(* C8 as claimed.  The bar is two adjacent 10000-unit segments, 20000 in   *)
(* total, one end at the anchor, and the labels stand at the bar's marks:  *)
(* "20 km" at the anchor end, "10 km" at the junction of the segments and  *)
(* "0 km" at the far end, 20000 units from the anchor.                     *)
(***************************************************************************)
BarGeometry(b, ext) ==
    /\ 100 * b.sbx = 100 * ext[1] + LocationX * (ext[2] - ext[1])
    /\ 100 * b.sby = 100 * ext[3] + LocationY * (ext[4] - ext[3])
    /\ \A i \in 1..3 : b.lines[i].y = b.sby
    /\ b.lines[2].xa = b.sbx
    /\ b.lines[2].xa - b.lines[2].xb = 10000
    /\ b.lines[3].xa = b.lines[2].xb
    /\ b.lines[3].xa - b.lines[3].xb = 10000
    /\ b.lines[1].xa = b.lines[2].xa
    /\ b.lines[1].xb = b.lines[3].xb
    /\ b.lines[1].xa - b.lines[1].xb = 20000

LabelAt(b, s, x) ==
    /\ Cardinality({i \in 1..Len(b.texts) : b.texts[i].s = s}) = 1
    /\ \A i \in 1..Len(b.texts) : b.texts[i].s = s => b.texts[i].x = x

C8_LabelsAtMarks ==
    \A a \in AxesIds : \A i \in 1..Len(axes[a].scalebars) :
        LET b == axes[a].scalebars[i] IN
        /\ BarGeometry(b, axes[a].extent)
        /\ LabelAt(b, "20 km", b.lines[2].xa)
        /\ LabelAt(b, "10 km", b.lines[2].xb)
        /\ LabelAt(b, "0 km", b.lines[3].xb)

(***************************************************************************)
(* C8 amended.  The bar is as claimed; the labels are anchored below the   *)
(* bar (4500 units under it) in the order of the marks but not on them:    *)
(* "20 km" starts at the anchor end, "10 km" 2500 units beyond the         *)
(* junction and "0 km" 4500 units beyond the far end of the bar.           *)
(***************************************************************************)
C8_ScaleBarGeometry ==
    \A a \in AxesIds : \A i \in 1..Len(axes[a].scalebars) :
        LET b == axes[a].scalebars[i] IN
        /\ BarGeometry(b, axes[a].extent)
        /\ Len(b.texts) = 3
        /\ \A j \in 1..3 : b.texts[j].y = b.sby - 4500
        /\ LabelAt(b, "20 km", b.lines[2].xa)
        /\ LabelAt(b, "10 km", b.lines[2].xb - 2500)
        /\ LabelAt(b, "0 km", b.lines[3].xb - 4500)

\* scale bars have been drawn on two axes of different extent
C8_Witness ==
    \E a, c \in AxesIds :
        /\ axes[a].scalebars # <<>> /\ axes[c].scalebars # <<>>
        /\ axes[a].extent # axes[c].extent

(***************************************************************************)
(* Sums over the entries of a mapping and over the values of a list.       *)
(***************************************************************************)
RECURSIVE SumOver(_, _)
SumOver(f, S) ==
    IF S = {} THEN 0
    ELSE LET x == CHOOSE y \in S : TRUE IN f[x] + SumOver(f, S \ {x})

SumFn(f) == SumOver(f, DOMAIN f)

\* the values present in a column, a missing value not being one
Present(t, col) == {t[i][col] : i \in 1..Len(t)} \ {NA}

\* the frames that hold the results of lines 135-178
SurveyFrames == {i \in 1..Len(stack) : "by_Material" \in DOMAIN stack[i].m}

(***************************************************************************)
(* C9.  For each of the three groupings of the survey dataset (Material,   *)
(* Saturation, HS_Hyd_Uni) every category value present in the data has    *)
(* exactly one entry in the result, and the per-group totals add up to the *)
(* ungrouped total of Tot_dist_m over all rows.                            *)
(***************************************************************************)
C9_GroupsPartitionTotal ==
    \A i \in SurveyFrames :
        LET m == stack[i].m
            t == files.Geophysical_survey_bank_materials
        IN /\ DOMAIN m.by_Material = Present(t, "Material")
           /\ DOMAIN m.by_Saturation = Present(t, "Saturation")
           /\ DOMAIN m.by_HS_Hyd_Uni = Present(t, "HS_Hyd_Uni")
           /\ SumFn(m.by_Material) = m.survey_km
           /\ SumFn(m.by_Saturation) = m.survey_km
           /\ SumFn(m.by_HS_Hyd_Uni) = m.survey_km

\* what holds of the groupings whatever the data: the per-group totals add
\* up to the total over the rows whose category is not missing
C9_GroupsPartitionKeyedRows ==
    \A i \in SurveyFrames :
        LET m == stack[i].m
            t == files.Geophysical_survey_bank_materials
            Keyed(col) == SelectSeq(t, LAMBDA r : r[col] # NA)
        IN /\ SumFn(m.by_Material) = Km(ColumnSum(Keyed("Material"), "Tot_dist_m"))
           /\ SumFn(m.by_Saturation) = m.survey_km
           /\ SumFn(m.by_HS_Hyd_Uni) = m.survey_km

(***************************************************************************)
(* C10.  For the steep-slope dataset (Face) and the palaeochannel dataset  *)
(* (channel), the counts of the rows matching each value of the            *)
(* unique-value listing add up to the unfiltered count of the dataset      *)
(* (the counts of lines 94 and 116).                                       *)
(***************************************************************************)
\* the number of rows of t whose col equals v: the col entry of
\* df[df[col] == v].count()
MatchCount(t, col, v) == FrameCount(FilterEq(t, col, v), {col})[col]

\* the match counts summed over the values of a unique-value listing
RECURSIVE SumMatches(_, _, _)
SumMatches(t, col, values) ==
    IF values = <<>> THEN 0
    ELSE MatchCount(t, col, values[1]) + SumMatches(t, col, Tail(values))

C10_FilteredCountsAddUp ==
    \A i \in 1..Len(stack) :
        LET m == stack[i].m IN
        /\ "steep_count" \in DOMAIN m =>
              /\ m.steep_front.Face = MatchCount(files.Steep_slopes, "Face", "Front")
              /\ SumMatches(files.Steep_slopes, "Face", m.type_Steep_slopes)
                    = m.steep_count
        /\ "palaeo_count" \in DOMAIN m =>
              /\ m.palaeo_depression.channel
                    = MatchCount(files.Palaeochannels, "channel", "Depression")
              /\ SumMatches(files.Palaeochannels, "channel", m.type_Palaeochannels)
                    = m.palaeo_count

\* what holds of the counts whatever the data: the match counts add up to
\* the number of rows whose filtered attribute is not missing
C10_FilteredCountsAddUpToKeyed ==
    \A i \in 1..Len(stack) :
        LET m == stack[i].m IN
        /\ "steep_count" \in DOMAIN m =>
              SumMatches(files.Steep_slopes, "Face", m.type_Steep_slopes)
                 = ColumnCount(files.Steep_slopes, "Face")
        /\ "palaeo_count" \in DOMAIN m =>
              SumMatches(files.Palaeochannels, "channel", m.type_Palaeochannels)
                 = ColumnCount(files.Palaeochannels, "channel")

(***************************************************************************)
(* Failed loads.                                                           *)
(***************************************************************************)
\* the position of the unreadable dataset in the order of the reads
BrokenIndex == CHOOSE k \in 1..Len(Datasets) : Datasets[k] = files.broken

\* the reads a run has done are exactly those before the unreadable one
ReadsStopAtBroken(ld) ==
    \A k \in 1..Len(Datasets) :
        ld[Datasets[k]] = IF k < BrokenIndex THEN 1 ELSE 0

StaticAborted == status = "raised" /\ error = "DatasetError"

WebAborted == web.status = "raised" /\ web.error = "DatasetError"

\* the static run is about to read the unreadable dataset
StaticAtBrokenLoad ==
    /\ stack # <<>> /\ Top.pc = "load"
    /\ files.broken = Datasets[Top.k + 1]

\* the interactive run is about to read the unreadable dataset
WebAtBrokenLoad ==
    /\ WebAt("load")
    /\ files.broken = WebScript[web.pc + 1].dataset

(***************************************************************************)
(* C11.  In both scripts a failed load aborts the run at that load: the    *)
(* step taken at the failing read is the abort, after the abort no further *)
(* step is taken, only the datasets before the failing one have been read, *)
(* no layer of the failing or a later dataset has been added and no PNG or *)
(* HTML file has been written.                                             *)
(***************************************************************************)
C11_AbortState ==
    /\ StaticAborted =>
          /\ stack = <<>>
          /\ saved = <<>>
          /\ ReadsStopAtBroken(loads)
          /\ Len(axes) = 1
          /\ axes[1].features = <<>> /\ axes[1].legend = <<>>
    /\ WebAborted =>
          /\ web.saved = <<>>
          /\ ReadsStopAtBroken(web.loads)
          /\ Len(web.layers) = BrokenIndex - 1
          /\ \A i \in 1..Len(web.layers) :
                web.layers[i].dataset = Datasets[i]

C11_AbortStep ==
    /\ StaticAtBrokenLoad => StaticAborted'
    /\ WebAtBrokenLoad => WebAborted'
    /\ ~StaticAborted
    /\ ~WebAborted

C11_LoadFailureAborts == [](C11_AbortState) /\ [][C11_AbortStep]_vars

\* a static run has been aborted by its third read, after two reads
C11_Witness ==
    /\ StaticAborted
    /\ files.broken = "Low_sections"
    /\ loads["areas"] = 1 /\ loads["defences"] = 1

(***************************************************************************)
(* Bindings of the dataset variables.                                      *)
(***************************************************************************)
\* the frames that exist before and after a step
KeptFrames == {i \in 1..Len(stack) : i <= Len(stack')}

\* the dataset variables that lines 239-269 assign a ShapelyFeature to
ReboundNames ==
    {"defences", "Geophysical_survey_bank_materials", "Low_sections",
     "Steep_slopes"}

(***************************************************************************)
(* C12 as claimed.  Once a dataset variable is bound to its loaded table   *)
(* it stays bound to that table as long as its frame exists, and the       *)
(* tables themselves do not change.                                        *)
(***************************************************************************)
C12_BindingsKept ==
    [][/\ files' = files
       /\ \A i \in KeptFrames : \A d \in Range(Datasets) :
             stack[i].bind[d] = "table" => stack'[i].bind[d] = "table"]_vars

(***************************************************************************)
(* C12 amended.  The loaded tables never change and no step other than a   *)
(* layer addition changes a binding: areas and Palaeochannels stay bound   *)
(* to their tables, while the layer addition of defences,                  *)
(* Geophysical_survey_bank_materials, Low_sections and Steep_slopes        *)
(* rebinds that variable, in the running frame, to the overlay feature.    *)
(***************************************************************************)
C12_BindingsKeptExceptOverlays ==
    [][/\ files' = files
       /\ \A i \in KeptFrames : \A d \in Range(Datasets) :
             (stack[i].bind[d] = "table" /\ stack'[i].bind[d] # "table") =>
                /\ d \in ReboundNames
                /\ i = Len(stack)
                /\ stack[i].pc \in {"colour_loop", "layers"}
                /\ Overlays[stack[i].lk + 1].name = d
                /\ stack'[i].bind[d] = "feature"]_vars

\* a frame has added all five overlays: four variables hold features, the
\* other two still their tables
C12_Witness ==
    \E i \in 1..Len(stack) :
        /\ stack[i].pc = "legend"
        /\ \A d \in ReboundNames : stack[i].bind[d] = "feature"
        /\ stack[i].bind["areas"] = "table"
        /\ stack[i].bind["Palaeochannels"] = "table"

(***************************************************************************)
(* Stages of the static pipeline.                                          *)
(***************************************************************************)
\* a metric has been computed in a frame that still exists
MetricsDone == \E i \in 1..Len(stack) : DOMAIN stack[i].m # {}

\* something has been composed: a scale bar drawn or a figure created
ComposeDone == BarsDrawn > 0 \/ Len(axes) > 1

\* the step taken reads a dataset
LoadStep == loads' # loads

\* the step taken is one of the metric computations of lines 73-187
MetricStep ==
    /\ stack # <<>>
    /\ Top.pc \in {"lengths", "steep", "palaeo", "survey", "units"}
    /\ stack' # stack

(***************************************************************************)
(* C13.  The stages run in the order Loader, Calculator, Composer: no      *)
(* dataset is read once a metric has been computed or a composition step   *)
(* taken, and no metric is computed once a composition step has been       *)
(* taken.                                                                  *)
(***************************************************************************)
C13_StagesInOrder ==
    [][/\ LoadStep => (~MetricsDone /\ ~ComposeDone)
       /\ MetricStep => ~ComposeDone]_vars

====
